---- MODULE Spec2Model ----
(***************************************************************************)
(* State machine of the system tray icon host (SystrayWidget) of           *)
(* src/src/core/widgets/yasb/systray.py: the icon registry, the pinned and *)
(* unpinned layouts, the in-memory current-state map and the per-monitor   *)
(* state file.                                                             *)
(*                                                                         *)
(* Qt behaviour the handlers rely on:                                      *)
(*  - QLayout.addWidget / insertWidget first take the widget out of the    *)
(*    layout it is in, then append / insert it;                            *)
(*  - QObject.deleteLater only posts a deferred-delete event: the widget   *)
(*    stays in its layout, with its hidden flag, until that event is       *)
(*    delivered (action DeferredDelete); queued notifications posted       *)
(*    earlier are delivered before it, timers and user input after it;     *)
(*  - QWidget.isHidden is the widget's own explicit hidden flag.           *)
(***************************************************************************)
EXTENDS Integers, Sequences, FiniteSets, TLC

\* ------------------------------------------------------------- bounds
\* IconWidget objects that exist at the same time (live or awaiting deletion)
MaxWidgets == 2
\* largest index found in a state file written by an earlier session
MaxIndex == 2
\* presence flags one notification carries when update_icon_data is explored
MaxFlags == 2
\* SystrayWidget instances (one per monitor) that share the tray monitor client
MaxInstances == 3
\* notifications posted to the UI thread and not yet handled
MaxQueue == 2
\* notifications the monitor thread emits in one run
MaxEmitted == 3
\* ticks of the clock in the delay of sort_timer.start(1000)
SortDelay == 2

\* ---------------------------------------------------------- constants
None == 0

NIF_MESSAGE == 1
NIF_ICON == 2
NIF_TIP == 4
NIF_STATE == 8
NIF_INFO == 16
NIF_GUID == 32

BATTERY_ICON_GUID == 101
VOLUME_ICON_GUID == 102

\* the sort key of a widget without a saved index
NoIndex == 9999

\* configuration of the widget instance
show_battery == FALSE
show_volume == TRUE

filtered_guids ==
    (IF show_battery THEN {} ELSE {BATTERY_ICON_GUID})
        \cup (IF show_volume THEN {} ELSE {VOLUME_ICON_GUID})

\* str(UUID): the canonical string form of a GUID
str(guid) ==
    CASE guid = BATTERY_ICON_GUID -> "7820ae75-23e3-4229-82c1-e41cb67d5b9c"
      [] guid = VOLUME_ICON_GUID -> "7820ae73-23e3-4229-82c1-e41cb67d5b9c"
      [] OTHER -> "None"

\* new_data.uFlags & flag
HasFlag(uFlags, flag) == (uFlags \div flag) % 2 = 1

\* --------------------------------------------------------- input sets
Widgets == 1..MaxWidgets
Guids == {BATTERY_ICON_GUID, VOLUME_ICON_GUID}
HWnds == {1, 2}
UIDs == {1, 2}

\* IconData(): the empty record a new icon starts from
EmptyIconData ==
    [message_type |-> 0, hWnd |-> 0, uID |-> 0, uFlags |-> 0, icon_image |-> 0,
     exe |-> "", exe_path |-> "", uVersion |-> 0, uCallbackMessage |-> 0,
     hIcon |-> 0, szTip |-> "", dwState |-> 0, dwStateMask |-> 0, guid |-> None,
     dwInfoFlags |-> 0, szInfoTitle |-> "", szInfo |-> "", uTimeout |-> 0]

\* the fields of IconData the registry, the sorter and the snapshot read
RegistryView(d) ==
    [guid |-> d.guid, hWnd |-> d.hWnd, uID |-> d.uID, exe_path |-> d.exe_path]

\* an IconData whose other fields are empty
FullData(v) ==
    [EmptyIconData EXCEPT !.guid = v.guid, !.hWnd = v.hWnd, !.uID = v.uID,
                          !.exe_path = v.exe_path]

\* the icons of the desktop the layout and persistence are explored with: a
\* legacy application without GUID, and the volume and battery icons of the
\* shell, which own one window and are told apart by their GUIDs
Apps ==
    { [guid |-> None, hWnd |-> 1, uID |-> 1, exe_path |-> "a.exe"],
      [guid |-> VOLUME_ICON_GUID, hWnd |-> 2, uID |-> 1, exe_path |-> "explorer.exe"],
      [guid |-> BATTERY_ICON_GUID, hWnd |-> 2, uID |-> 1, exe_path |-> "explorer.exe"] }

\* the icon-modified notifications of these applications: the GUID comes with
\* its presence flag, the hidden state with NIF_STATE
NotifSet ==
    { [FullData(a) EXCEPT
          !.uFlags = NIF_ICON + (IF a.guid # None THEN NIF_GUID ELSE 0) + fs,
          !.dwState = IF fs = NIF_STATE THEN 1 ELSE 0,
          !.dwStateMask = IF fs = NIF_STATE THEN 1 ELSE 0]
        : a \in Apps, fs \in {0, NIF_STATE} }

\* their icon-deleted notifications: only guid, hWnd and uID are read
DeletedSet == { FullData(a) : a \in Apps }

\* the notifications identity resolution is explored with: any GUID, with or
\* without its presence flag, from any window
IdentityNotifSet ==
    { [EmptyIconData EXCEPT !.guid = g, !.hWnd = h, !.uID = u, !.exe_path = "a.exe",
                            !.uFlags = NIF_ICON + fg]
        : g \in Guids \cup {None}, h \in HWnds, u \in UIDs, fg \in {0, NIF_GUID} }

\* the hidden bit of dwState (NIS_HIDDEN), the value line 226 compares with
NIS_HIDDEN == 1

\* the values of dwState and dwStateMask: the hidden bit and the shared-icon bit
StateValues == 0..3

\* icon-modified notifications of the applications with any dwState and
\* dwStateMask, with and without NIF_STATE
StateNotifSet ==
    { [FullData(a) EXCEPT
          !.uFlags = NIF_ICON + (IF a.guid # None THEN NIF_GUID ELSE 0) + fs,
          !.dwState = st,
          !.dwStateMask = mask]
        : a \in Apps, fs \in {0, NIF_STATE}, st \in StateValues, mask \in StateValues }

\* two icons of one legacy application: no GUID, one executable, one window,
\* told apart by their uID; and their icon-modified notifications
SameExeApps ==
    { [guid |-> None, hWnd |-> 1, uID |-> u, exe_path |-> "a.exe"] : u \in UIDs }

SameExeNotifSet == { [FullData(a) EXCEPT !.uFlags = NIF_ICON] : a \in SameExeApps }

\* the notifications update_icon_data is explored with: every field carries the
\* stamp v of its notification, under any uFlags of at most MaxFlags flags
Flags == {NIF_MESSAGE, NIF_ICON, NIF_TIP, NIF_STATE, NIF_INFO, NIF_GUID}

FlagSum(S) ==
    (IF NIF_MESSAGE \in S THEN NIF_MESSAGE ELSE 0)
        + (IF NIF_ICON \in S THEN NIF_ICON ELSE 0)
        + (IF NIF_TIP \in S THEN NIF_TIP ELSE 0)
        + (IF NIF_STATE \in S THEN NIF_STATE ELSE 0)
        + (IF NIF_INFO \in S THEN NIF_INFO ELSE 0)
        + (IF NIF_GUID \in S THEN NIF_GUID ELSE 0)

Stamps == {1, 2}

Text(v) == IF v = 1 THEN "one" ELSE "two"

StampedData(v, uFlags) ==
    [message_type |-> v, hWnd |-> v, uID |-> v, uFlags |-> uFlags, icon_image |-> v,
     exe |-> Text(v), exe_path |-> Text(v), uVersion |-> v + 3,
     uCallbackMessage |-> v, hIcon |-> v, szTip |-> Text(v), dwState |-> v,
     dwStateMask |-> v, guid |-> IF v = 1 THEN VOLUME_ICON_GUID ELSE BATTERY_ICON_GUID,
     dwInfoFlags |-> v, szInfoTitle |-> Text(v), szInfo |-> Text(v), uTimeout |-> v]

DataNotifSet ==
    { StampedData(v, FlagSum(S)) :
        v \in Stamps, S \in {T \in SUBSET Flags : Cardinality(T) <= MaxFlags} }

VARIABLES
    pc,              \* "init" | "running" | "quit" | "crashed"
    icons,           \* self.icons: the registry, a list of widgets
    data,            \* icon.data of each widget (its RegistryView)
    is_pinned,       \* icon.is_pinned of each widget
    hidden,          \* icon.isHidden() of each widget
    unpinned_layout, \* widgets of self.unpinned_layout, in order
    pinned_layout,   \* widgets of self.pinned_layout, in order
    pending,         \* widgets with deleteLater() called and not yet deleted
    current_state,   \* self.current_state: key -> IconState
    disk,            \* the per-monitor state file
    pinned_visible,  \* self.pinned_widget.isVisible()
    forceshow,       \* self.pinned_widget.property("forceshow")
    sort_timer,      \* self.sort_timer.isActive()
    dragging,        \* a drag is in progress (between drag_started and drag_ended)
    icon_data,       \* one icon's complete IconData, for update_icon_data alone
    written,         \* the field values the notifications so far have written to it
    _instance,       \* SystrayWidget._instance: None or the TrayMonitor it holds
    _thread,         \* SystrayWidget._thread: None or the TrayMonitorThread it holds
    monitors,        \* how many TrayMonitor objects have been constructed
    threads,         \* how many TrayMonitorThread objects have been started
    client,          \* the TrayMonitor this widget's slots are connected to, or None
    sent,            \* how often this widget has called send_taskbar_created
    others,          \* the tray hosts of the other monitors: [pc, kind, client, sent]
    queue,           \* the notifications posted to the UI thread and not yet handled
    emitted,         \* how many notifications the monitor thread has emitted
    last_handled,    \* the number of the notification handled last
    sort_remaining,  \* ticks until the active sort_timer times out
    waited,          \* ticks the pending sort has waited since the last insertion
    dead             \* the window handles IsWindow rejects

\* the state of this widget, of the shared client, and of the event queue
widget_vars == <<pc, icons, data, is_pinned, hidden, unpinned_layout, pinned_layout,
                 pending, current_state, disk, pinned_visible, forceshow, sort_timer,
                 dragging>>

client_vars == <<_instance, _thread, monitors, threads, client, sent, others>>

queue_vars == <<queue, emitted, last_handled>>

timer_vars == <<sort_remaining, waited>>

vars == <<widget_vars, icon_data, written, client_vars, queue_vars, timer_vars, dead>>


\* ------------------------------------------------------ list helpers
Range(s) == {s[i] : i \in 1..Len(s)}

Min(S) == CHOOSE x \in S : \A y \in S : x <= y

Max(S) == CHOOSE x \in S : \A y \in S : x >= y

\* list.index / QLayout.indexOf, counted from 0; -1 when absent
IndexOf(s, w) ==
    IF w \in Range(s) THEN Min({i \in 1..Len(s) : s[i] = w}) - 1 ELSE -1

\* list.remove / the layout losing a widget
Remove(s, w) == SelectSeq(s, LAMBDA x : x # w)

\* QBoxLayout.insertWidget(index, w) on a layout that does not hold w:
\* a negative index, or one past the end, appends
InsertAt(s, index, w) ==
    IF index < 0 \/ index >= Len(s)
    THEN Append(s, w)
    ELSE SubSeq(s, 1, index) \o <<w>> \o SubSeq(s, index + 1, Len(s))

\* layout.addWidget(w): w leaves the layout it is in and is appended
addWidget(layout, w) == Append(Remove(layout, w), w)

\* layout.insertWidget(index, w): w leaves the layout it is in, then is inserted
insertWidget(layout, index, w) == InsertAt(Remove(layout, w), index, w)

EmptyMap == [k \in {} |-> 0]

\* dict.get(key, default)
Get(map, key, default) == IF key \in DOMAIN map THEN map[key] ELSE default

\* IconState(is_pinned, index)
IconState(pinned, index) == [is_pinned |-> pinned, index |-> index]

\* ---------------------------------------------------------- find_icon
\* find_icon with the two loops in the other order: the (hWnd, uID) pair is
\* tried before the GUID
find_icon_hwnd_first(uuid, hwnd, uID) ==
    LET byGuid == {i \in 1..Len(icons) :
                      data[icons[i]].guid # None /\ data[icons[i]].guid = uuid}
        byHwnd == {i \in 1..Len(icons) :
                      data[icons[i]].hWnd = hwnd /\ data[icons[i]].uID = uID}
    IN  IF byHwnd # {} THEN icons[Min(byHwnd)]
        ELSE IF uuid # None /\ byGuid # {} THEN icons[Min(byGuid)]
        ELSE None

\* the first registry entry with the notification's GUID; when there is none
\* (or the notification has no GUID) the first entry with its (hWnd, uID)
find_icon(uuid, hwnd, uID) ==
    LET byGuid == {i \in 1..Len(icons) :
                      data[icons[i]].guid # None /\ data[icons[i]].guid = uuid}
        byHwnd == {i \in 1..Len(icons) :
                      data[icons[i]].hWnd = hwnd /\ data[icons[i]].uID = uID}
    IN  IF uuid # None /\ byGuid # {} THEN icons[Min(byGuid)]
        ELSE IF byHwnd # {} THEN icons[Min(byHwnd)]
        ELSE None

\* --------------------------------------------------- update_icon_data
\* update_icon_data with hIcon among the direct attributes
update_icon_data_hIcon_direct(old_data, new_data) ==
    LET f == new_data.uFlags
        direct == [old_data EXCEPT
                      !.message_type = new_data.message_type,
                      !.hWnd = new_data.hWnd,
                      !.uID = new_data.uID,
                      !.uFlags = new_data.uFlags,
                      !.icon_image = new_data.icon_image,
                      !.exe = new_data.exe,
                      !.exe_path = new_data.exe_path,
                      !.hIcon = new_data.hIcon]
        versioned == IF 0 < new_data.uVersion /\ new_data.uVersion <= 4
                     THEN [direct EXCEPT !.uVersion = new_data.uVersion]
                     ELSE direct
    IN  [versioned EXCEPT
            !.uCallbackMessage =
                IF HasFlag(f, NIF_MESSAGE) THEN new_data.uCallbackMessage ELSE @,
            !.szTip = IF HasFlag(f, NIF_TIP) THEN new_data.szTip ELSE @,
            !.dwState = IF HasFlag(f, NIF_STATE) THEN new_data.dwState ELSE @,
            !.dwStateMask = IF HasFlag(f, NIF_STATE) THEN new_data.dwStateMask ELSE @,
            !.guid = IF HasFlag(f, NIF_GUID) THEN new_data.guid ELSE @,
            !.dwInfoFlags = IF HasFlag(f, NIF_INFO) THEN new_data.dwInfoFlags ELSE @,
            !.szInfoTitle = IF HasFlag(f, NIF_INFO) THEN new_data.szInfoTitle ELSE @,
            !.szInfo = IF HasFlag(f, NIF_INFO) THEN new_data.szInfo ELSE @,
            !.uTimeout = IF HasFlag(f, NIF_INFO) THEN new_data.uTimeout ELSE @]

update_icon_data(old_data, new_data) ==
    LET f == new_data.uFlags
        direct == [old_data EXCEPT
                      !.message_type = new_data.message_type,
                      !.hWnd = new_data.hWnd,
                      !.uID = new_data.uID,
                      !.uFlags = new_data.uFlags,
                      !.icon_image = new_data.icon_image,
                      !.exe = new_data.exe,
                      !.exe_path = new_data.exe_path]
        versioned == IF 0 < new_data.uVersion /\ new_data.uVersion <= 4
                     THEN [direct EXCEPT !.uVersion = new_data.uVersion]
                     ELSE direct
    IN  [versioned EXCEPT
            !.uCallbackMessage =
                IF HasFlag(f, NIF_MESSAGE) THEN new_data.uCallbackMessage ELSE @,
            !.hIcon = IF HasFlag(f, NIF_ICON) THEN new_data.hIcon ELSE @,
            !.szTip = IF HasFlag(f, NIF_TIP) THEN new_data.szTip ELSE @,
            !.dwState = IF HasFlag(f, NIF_STATE) THEN new_data.dwState ELSE @,
            !.dwStateMask = IF HasFlag(f, NIF_STATE) THEN new_data.dwStateMask ELSE @,
            !.guid = IF HasFlag(f, NIF_GUID) THEN new_data.guid ELSE @,
            !.dwInfoFlags = IF HasFlag(f, NIF_INFO) THEN new_data.dwInfoFlags ELSE @,
            !.szInfoTitle = IF HasFlag(f, NIF_INFO) THEN new_data.szInfoTitle ELSE @,
            !.szInfo = IF HasFlag(f, NIF_INFO) THEN new_data.szInfo ELSE @,
            !.uTimeout = IF HasFlag(f, NIF_INFO) THEN new_data.uTimeout ELSE @]

\* ------------------------------------------------ pinned visibility
\* no widget of the layout is shown (a widget awaiting deletion still counts)
is_layout_empty(layout, hid) == \A i \in 1..Len(layout) : hid[layout[i]]

update_pinned_widget_visibility(layout, hid, force_show) ==
    LET is_empty == is_layout_empty(layout, hid)
    IN  /\ pinned_visible' = (~is_empty \/ force_show)
        /\ forceshow' = IF force_show /\ is_empty THEN TRUE
                        ELSE IF forceshow /\ ~is_empty THEN FALSE
                        ELSE forceshow

\* ------------------------------------------------ state snapshot
\* the key an icon is saved under: uuid or w.data.exe_path
KeyOf(w) == IF data[w].guid = None THEN data[w].exe_path ELSE str(data[w].guid)

\* update_current_state that replaces the map by the snapshot: = instead of |=
update_current_state_replace(cs, pinflag, hid, unp, pin) ==
    LET shown == {i \in 1..Len(icons) : ~hid[icons[i]]}
        keys == {KeyOf(icons[i]) : i \in shown}
        indexOf(w) == IF IndexOf(unp, w) # -1 THEN IndexOf(unp, w) ELSE IndexOf(pin, w)
    IN  [k \in keys |->
            LET w == icons[Max({i \in shown : KeyOf(icons[i]) = k})]
            IN  IconState(pinflag[w], indexOf(w))]

\* update_current_state: every live, non-hidden icon's pin flag and layout
\* index, a later icon of self.icons overwriting an earlier one with its key
update_current_state(cs, pinflag, hid, unp, pin) ==
    LET shown == {i \in 1..Len(icons) : ~hid[icons[i]]}
        keys == {KeyOf(icons[i]) : i \in shown}
        indexOf(w) == IF IndexOf(unp, w) # -1 THEN IndexOf(unp, w) ELSE IndexOf(pin, w)
        widgets_state ==
            [k \in keys |->
                LET w == icons[Max({i \in shown : KeyOf(icons[i]) = k})]
                IN  IconState(pinflag[w], indexOf(w))]
    IN  widgets_state @@ cs

\* ------------------------------------------------ the state file
\* json.dumps of IconState.__dict__ and IconState.from_dict of the parsed value
ToJson(state) ==
    [is_pinned |-> IF state.is_pinned THEN "true" ELSE "false", index |-> state.index]

from_dict(v) == IconState(v.is_pinned = "true", v.index)

\* what json.load gives save_state: the object on disk, {} when the file is
\* missing or cannot be decoded
ReadSaved(dsk) == IF dsk.kind = "object" THEN dsk.obj ELSE EmptyMap

\* save_state with the operands of the merge swapped: current_state | saved_state
SaveFile_saved_wins(dsk, cs) ==
    [kind |-> "object", obj |-> ReadSaved(dsk) @@ [k \in DOMAIN cs |-> ToJson(cs[k])]]

\* save_state writing current_state alone
SaveFile_replace(dsk, cs) ==
    [kind |-> "object", obj |-> [k \in DOMAIN cs |-> ToJson(cs[k])]]

\* the file save_state writes: saved_state | current_state
SaveFile(dsk, cs) ==
    [kind |-> "object", obj |-> [k \in DOMAIN cs |-> ToJson(cs[k])] @@ ReadSaved(dsk)]

\* the map load_state builds
LoadFile(dsk) ==
    LET state == ReadSaved(dsk) IN [k \in DOMAIN state |-> from_dict(state[k])]


\* ------------------------------------------------ initial state
\* the state files an earlier session may have left: the legacy icon unpinned
\* at index MaxIndex; the shell's icons pinned, saved under their path
PriorFiles ==
    { [k \in {"a.exe"} |-> [is_pinned |-> "false", index |-> MaxIndex]],
      [k \in {"explorer.exe"} |-> [is_pinned |-> "true", index |-> 0]] }

\* the file at startup: absent, not JSON, JSON that is no object, or a state file
InitDisks ==
    {[kind |-> k, obj |-> EmptyMap] : k \in {"missing", "notjson", "nonobject"}}
        \cup {[kind |-> "object", obj |-> f] : f \in PriorFiles}

\* the tray hosts of the other monitors, each with a state file of its own
OtherHosts == 2..MaxInstances

NewHost(kind) == [pc |-> "init", kind |-> kind, client |-> None, sent |-> 0]

\* SystrayWidget.__init__ of this widget, before any widget has set up the
\* client; the state file is whatever an earlier session left
InitWidget ==
    /\ pc = "init"
    /\ icons = <<>>
    /\ data = [w \in Widgets |-> RegistryView(EmptyIconData)]
    /\ is_pinned = [w \in Widgets |-> FALSE]
    /\ hidden = [w \in Widgets |-> FALSE]
    /\ unpinned_layout = <<>>
    /\ pinned_layout = <<>>
    /\ pending = {}
    /\ current_state = EmptyMap
    /\ pinned_visible = TRUE
    /\ forceshow = FALSE
    /\ sort_timer = FALSE
    /\ dragging = FALSE
    /\ icon_data = EmptyIconData
    /\ written = EmptyIconData
    /\ _instance = None
    /\ _thread = None
    /\ monitors = 0
    /\ threads = 0
    /\ client = None
    /\ sent = 0
    /\ queue = <<>>
    /\ emitted = 0
    /\ last_handled = 0
    /\ sort_remaining = 0
    /\ waited = 0
    /\ dead = {}

InitSelf ==
    /\ InitWidget
    /\ disk \in InitDisks

\* this widget, the hosts of the other monitors not yet set up
Init ==
    /\ InitSelf
    /\ others = [i \in OtherHosts |-> NewHost("missing")]

\* ------------------------------------------------ get_client_instance
\* the class attributes after the call: the first call constructs the
\* TrayMonitor and starts its thread, every later call finds them
get_client_instance ==
    IF _instance = None
    THEN [instance |-> monitors + 1, thread |-> threads + 1,
          monitors |-> monitors + 1, threads |-> threads + 1]
    ELSE [instance |-> _instance, thread |-> _thread,
          monitors |-> monitors, threads |-> threads]

\* ------------------------------------------------ setup_client
\* load_state, then the signals are connected; a state file holding JSON that
\* is no object makes load_state raise, and the widget never connects
\* setup_client that connects and sends before load_state has filled the map
setup_client_connect_first ==
    /\ UNCHANGED <<icon_data, written, timer_vars, dead, queue_vars>>
    /\ pc = "init"
    /\ IF disk.kind = "nonobject"
       THEN /\ pc' = "crashed"
            /\ current_state' = EmptyMap
            /\ UNCHANGED <<_instance, _thread, monitors, threads, client, sent>>
       ELSE /\ pc' = "running"
            /\ current_state' = EmptyMap
            /\ LET c == get_client_instance
               IN  /\ _instance' = c.instance
                   /\ _thread' = c.thread
                   /\ monitors' = c.monitors
                   /\ threads' = c.threads
                   /\ client' = c.instance
            /\ sent' = sent + 1
    /\ UNCHANGED <<icons, data, is_pinned, hidden, unpinned_layout, pinned_layout,
                   pending, disk, pinned_visible, forceshow, sort_timer, dragging,
                   others>>

setup_client ==
    /\ UNCHANGED <<icon_data, written, timer_vars, dead, queue_vars>>
    /\ pc = "init"
    /\ IF disk.kind = "nonobject"
       THEN /\ pc' = "crashed"
            /\ current_state' = EmptyMap
            /\ UNCHANGED <<_instance, _thread, monitors, threads, client, sent>>
       ELSE /\ pc' = "running"
            /\ current_state' = LoadFile(disk)
            /\ LET c == get_client_instance
               IN  /\ _instance' = c.instance
                   /\ _thread' = c.thread
                   /\ monitors' = c.monitors
                   /\ threads' = c.threads
                   /\ client' = c.instance
            /\ sent' = sent + 1
    /\ UNCHANGED <<icons, data, is_pinned, hidden, unpinned_layout, pinned_layout,
                   pending, disk, pinned_visible, forceshow, sort_timer, dragging,
                   others>>

\* setup_client of the tray host of another monitor, whose state file is of
\* kind others[i].kind
other_setup_client(i) ==
    /\ others[i].pc = "init"
    /\ IF others[i].kind = "nonobject"
       THEN /\ others' = [others EXCEPT ![i].pc = "crashed"]
            /\ UNCHANGED <<_instance, _thread, monitors, threads>>
       ELSE /\ LET c == get_client_instance
               IN  /\ _instance' = c.instance
                   /\ _thread' = c.thread
                   /\ monitors' = c.monitors
                   /\ threads' = c.threads
                   /\ others' = [others EXCEPT ![i].pc = "running",
                                                ![i].client = c.instance,
                                                ![i].sent = @ + 1]
    /\ UNCHANGED <<widget_vars, icon_data, written, timer_vars, dead, client, sent, queue_vars>>

\* ------------------------------------------------ on_icon_modified
\* the lookup with the path key tried before the GUID-or-path key
saved_data_path_first(d) ==
    LET id == IF d.guid # None THEN str(d.guid) ELSE d.exe_path
    IN  Get(current_state, d.exe_path,
            Get(current_state, id, IconState(FALSE, -1)))

\* the saved state of a new icon: by GUID-or-path key, then by path key
saved_data(d) ==
    LET id == IF d.guid # None THEN str(d.guid) ELSE d.exe_path
    IN  Get(current_state, id,
            Get(current_state, d.exe_path, IconState(FALSE, -1)))

\* on_icon_modified that starts the sort timer only when it is not active
on_icon_modified_no_restart(d) ==
    /\ UNCHANGED <<icon_data, written, dead, client_vars>>
    /\ pc = "running"
    /\ IF d.guid \in filtered_guids
       THEN UNCHANGED <<widget_vars, timer_vars>>
       ELSE LET found == find_icon(d.guid, d.hWnd, d.uID)
                free == Widgets \ (Range(icons) \cup pending)
            IN  /\ found = None => free # {}
                /\ LET icon == IF found = None THEN Min(free) ELSE found
                       saved == saved_data(d)
                       pin == IF found = None /\ saved.is_pinned
                              THEN addWidget(pinned_layout, icon)
                              ELSE pinned_layout
                       hid == [hidden EXCEPT ![icon] =
                                  HasFlag(d.uFlags, NIF_STATE) /\ d.dwState = 1]
                   IN  /\ icons' = IF found = None THEN Append(icons, icon) ELSE icons
                       /\ is_pinned' = IF found = None
                                       THEN [is_pinned EXCEPT ![icon] = saved.is_pinned]
                                       ELSE is_pinned
                       /\ pinned_layout' = pin
                       /\ unpinned_layout' =
                              IF found = None /\ ~saved.is_pinned
                              THEN addWidget(unpinned_layout, icon)
                              ELSE unpinned_layout
                       /\ sort_timer' = IF found = None THEN TRUE ELSE sort_timer
                       /\ sort_remaining' = IF found = None /\ ~sort_timer THEN SortDelay
                                             ELSE sort_remaining
                       /\ waited' = IF found = None THEN 0 ELSE waited
                       /\ data' = [data EXCEPT ![icon] =
                                      RegistryView(update_icon_data(
                                          IF found = None THEN EmptyIconData
                                          ELSE FullData(@), d))]
                       /\ hidden' = hid
                       /\ update_pinned_widget_visibility(pin, hid, FALSE)
                       /\ UNCHANGED <<pc, pending, current_state, disk, dragging>>

on_icon_modified(d) ==
    /\ UNCHANGED <<icon_data, written, dead, client_vars>>
    /\ pc = "running"
    /\ IF d.guid \in filtered_guids
       THEN UNCHANGED <<widget_vars, timer_vars>>
       ELSE LET found == find_icon(d.guid, d.hWnd, d.uID)
                free == Widgets \ (Range(icons) \cup pending)
            IN  /\ found = None => free # {}
                /\ LET icon == IF found = None THEN Min(free) ELSE found
                       saved == saved_data(d)
                       pin == IF found = None /\ saved.is_pinned
                              THEN addWidget(pinned_layout, icon)
                              ELSE pinned_layout
                       hid == [hidden EXCEPT ![icon] =
                                  HasFlag(d.uFlags, NIF_STATE) /\ d.dwState = 1]
                   IN  /\ icons' = IF found = None THEN Append(icons, icon) ELSE icons
                       /\ is_pinned' = IF found = None
                                       THEN [is_pinned EXCEPT ![icon] = saved.is_pinned]
                                       ELSE is_pinned
                       /\ pinned_layout' = pin
                       /\ unpinned_layout' =
                              IF found = None /\ ~saved.is_pinned
                              THEN addWidget(unpinned_layout, icon)
                              ELSE unpinned_layout
                       /\ sort_timer' = IF found = None THEN TRUE ELSE sort_timer
                       /\ sort_remaining' = IF found = None THEN SortDelay
                                             ELSE sort_remaining
                       /\ waited' = IF found = None THEN 0 ELSE waited
                       /\ data' = [data EXCEPT ![icon] =
                                      RegistryView(update_icon_data(
                                          IF found = None THEN EmptyIconData
                                          ELSE FullData(@), d))]
                       /\ hidden' = hid
                       /\ update_pinned_widget_visibility(pin, hid, FALSE)
                       /\ UNCHANGED <<pc, pending, current_state, disk, dragging>>

\* ------------------------------------------------ on_icon_deleted
\* on_icon_deleted that takes the snapshot of update_current_state on its way
on_icon_deleted_with_snapshot(d) ==
    /\ UNCHANGED <<icon_data, written, timer_vars, dead, client_vars>>
    /\ pc = "running"
    /\ LET icon == find_icon(d.guid, d.hWnd, d.uID)
       IN  IF icon # None
           THEN /\ icons' = Remove(icons, icon)
                /\ pending' = pending \cup {icon}
                /\ data' = [data EXCEPT ![icon] = RegistryView(EmptyIconData)]
                /\ is_pinned' = [is_pinned EXCEPT ![icon] = FALSE]
                /\ update_pinned_widget_visibility(pinned_layout, hidden, FALSE)
                /\ current_state' = update_current_state(current_state, is_pinned, hidden,
                                                         unpinned_layout, pinned_layout)
                /\ UNCHANGED <<pc, hidden, unpinned_layout, pinned_layout,
                               disk, sort_timer, dragging>>
           ELSE UNCHANGED widget_vars

on_icon_deleted(d) ==
    /\ UNCHANGED <<icon_data, written, timer_vars, dead, client_vars>>
    /\ pc = "running"
    /\ LET icon == find_icon(d.guid, d.hWnd, d.uID)
       IN  IF icon # None
           THEN /\ icons' = Remove(icons, icon)
                /\ pending' = pending \cup {icon}
                /\ data' = [data EXCEPT ![icon] = RegistryView(EmptyIconData)]
                /\ is_pinned' = [is_pinned EXCEPT ![icon] = FALSE]
                /\ update_pinned_widget_visibility(pinned_layout, hidden, FALSE)
                /\ UNCHANGED <<pc, hidden, unpinned_layout, pinned_layout,
                               current_state, disk, sort_timer, dragging>>
           ELSE UNCHANGED widget_vars

\* the deferred-delete event of icon.deleteLater(): the widget is destroyed and
\* its layout loses it (its data, never read after the removal from self.icons,
\* was cleared in the model when it left the registry)
DeferredDelete(w) ==
    /\ UNCHANGED <<icon_data, written, timer_vars, dead, client_vars, queue_vars>>
    /\ w \in pending
    /\ pending' = pending \ {w}
    /\ unpinned_layout' = Remove(unpinned_layout, w)
    /\ pinned_layout' = Remove(pinned_layout, w)
    /\ hidden' = [hidden EXCEPT ![w] = FALSE]
    /\ UNCHANGED <<pc, icons, data, is_pinned, current_state, disk, pinned_visible,
                   forceshow, sort_timer, dragging>>

\* ------------------------------------------------ check_icons
\* the liveness sweep of icon_check_timer; invalid is the set of window
\* handles IsWindow rejects at the time of the sweep
\* check_icons iterating self.icons itself, not the copy self.icons[:]: the icon
\* after a removed one is skipped
check_icons_no_copy(invalid) ==
    /\ UNCHANGED <<icon_data, written, timer_vars, dead, client_vars, queue_vars>>
    /\ pc = "running"
    /\ pending = {}
    /\ LET removed[i \in 0..Len(icons)] ==
               IF i = 0 THEN FALSE
               ELSE data[icons[i]].hWnd \in invalid /\ ~removed[i - 1]
           gone == {icons[i] : i \in {n \in 1..Len(icons) : removed[n]}}
       IN  /\ icons' = SelectSeq(icons, LAMBDA w : w \notin gone)
           /\ pending' = pending \cup gone
           /\ data' = [w \in Widgets |->
                          IF w \in gone THEN RegistryView(EmptyIconData) ELSE data[w]]
           /\ is_pinned' = [w \in Widgets |-> IF w \in gone THEN FALSE ELSE is_pinned[w]]
           /\ IF gone # {}
              THEN update_pinned_widget_visibility(pinned_layout, hidden, FALSE)
              ELSE UNCHANGED <<pinned_visible, forceshow>>
    /\ UNCHANGED <<pc, hidden, unpinned_layout, pinned_layout, current_state, disk,
                   sort_timer, dragging>>

check_icons(invalid) ==
    /\ UNCHANGED <<icon_data, written, timer_vars, dead, client_vars, queue_vars>>
    /\ pc = "running"
    /\ pending = {}
    /\ LET gone == {w \in Range(icons) : data[w].hWnd \in invalid}
       IN  /\ icons' = SelectSeq(icons, LAMBDA w : w \notin gone)
           /\ pending' = pending \cup gone
           /\ data' = [w \in Widgets |->
                          IF w \in gone THEN RegistryView(EmptyIconData) ELSE data[w]]
           /\ is_pinned' = [w \in Widgets |-> IF w \in gone THEN FALSE ELSE is_pinned[w]]
           /\ IF gone # {}
              THEN update_pinned_widget_visibility(pinned_layout, hidden, FALSE)
              ELSE UNCHANGED <<pinned_visible, forceshow>>
    /\ UNCHANGED <<pc, hidden, unpinned_layout, pinned_layout, current_state, disk,
                   sort_timer, dragging>>

\* ------------------------------------------------ sort_icons
\* get_sort_index of every widget, read from the map cs
get_sort_index(cs) ==
    [w \in Widgets |->
        LET id == IF data[w].guid # None THEN str(data[w].guid) ELSE data[w].exe_path
        IN  IF id \in DOMAIN cs THEN cs[id].index ELSE NoIndex]

\* list.sort(key=...): stable, ascending
RECURSIVE sort(_, _)
sort(list, key) ==
    IF list = <<>> THEN <<>>
    ELSE LET front == sort(SubSeq(list, 1, Len(list) - 1), key)
             w == list[Len(list)]
             n == Cardinality({i \in 1..Len(front) : key[front[i]] <= key[w]})
         IN  SubSeq(front, 1, n) \o <<w>> \o SubSeq(front, n + 1, Len(front))

\* for w in sorted: layout.insertWidget(sorted.index(w), w), from the i-th on
RECURSIVE reinsert(_, _, _)
reinsert(layout, sorted, i) ==
    IF i > Len(sorted) THEN layout
    ELSE reinsert(insertWidget(layout, IndexOf(sorted, sorted[i]), sorted[i]),
                  sorted, i + 1)

\* the layouts and the current-state map sort_icons leaves
sort_result(unp, pin, cs) ==
    LET key == get_sort_index(cs)
        unpinned == reinsert(unp, sort(unp, key), 1)
        pinned == reinsert(pin, sort(pin, key), 1)
    IN  [unpinned |-> unpinned, pinned |-> pinned,
         cs |-> update_current_state(cs, is_pinned, hidden, unpinned, pinned)]

\* the single-shot sort_timer fires
sort_icons ==
    /\ UNCHANGED <<icon_data, written, dead, client_vars, queue_vars>>
    /\ pc = "running"
    /\ sort_timer
    /\ pending = {}
    /\ LET r == sort_result(unpinned_layout, pinned_layout, current_state)
       IN  /\ unpinned_layout' = r.unpinned
           /\ pinned_layout' = r.pinned
           /\ current_state' = r.cs
    /\ sort_timer' = FALSE
    /\ sort_remaining' = 0
    /\ waited' = 0
    /\ UNCHANGED <<pc, icons, data, is_pinned, hidden, pending, disk,
                   pinned_visible, forceshow, dragging>>

\* ------------------------------------------------ save_state
\* the snapshot is taken, then the file is rewritten, and the widget goes on
\* in state then; JSON on disk that is no object makes the merge raise before
\* anything is written
\* save_state without its first line, self.update_current_state()
save_state_no_snapshot(pinflag, hid, unp, pin, then) ==
    LET cs == current_state
    IN  /\ current_state' = cs
        /\ IF disk.kind = "nonobject"
           THEN /\ pc' = "crashed"
                /\ disk' = disk
           ELSE /\ pc' = then
                /\ disk' = SaveFile(disk, cs)

save_state(pinflag, hid, unp, pin, then) ==
    LET cs == update_current_state(current_state, pinflag, hid, unp, pin)
    IN  /\ current_state' = cs
        /\ IF disk.kind = "nonobject"
           THEN /\ pc' = "crashed"
                /\ disk' = disk
           ELSE /\ pc' = then
                /\ disk' = SaveFile(disk, cs)

\* ------------------------------------------------ on_icon_pinned_changed
\* on_icon_pinned_changed with icon.is_pinned = True in both branches
on_icon_pinned_changed_always_pinned(icon) ==
    /\ UNCHANGED <<icon_data, written, timer_vars, dead, client_vars, queue_vars>>
    /\ pc = "running"
    /\ pending = {}
    /\ ~dragging
    /\ icon \in Range(icons)
    /\ ~hidden[icon]
    /\ icon \in Range(pinned_layout) => pinned_visible
    /\ LET to_pinned == icon \in Range(unpinned_layout)
           pin == IF to_pinned THEN addWidget(pinned_layout, icon)
                  ELSE Remove(pinned_layout, icon)
           unp == IF to_pinned THEN Remove(unpinned_layout, icon)
                  ELSE addWidget(unpinned_layout, icon)
           pinflag == [is_pinned EXCEPT ![icon] = TRUE]
           hid == [hidden EXCEPT ![icon] = FALSE]
       IN  /\ pinned_layout' = pin
           /\ unpinned_layout' = unp
           /\ is_pinned' = pinflag
           /\ hidden' = hid
           /\ save_state(pinflag, hid, unp, pin, pc)
           /\ update_pinned_widget_visibility(pin, hid, FALSE)
    /\ UNCHANGED <<icons, data, pending, sort_timer, dragging>>

\* the user [Mod]+clicks a shown icon
on_icon_pinned_changed(icon) ==
    /\ UNCHANGED <<icon_data, written, timer_vars, dead, client_vars, queue_vars>>
    /\ pc = "running"
    /\ pending = {}
    /\ ~dragging
    /\ icon \in Range(icons)
    /\ ~hidden[icon]
    /\ icon \in Range(pinned_layout) => pinned_visible
    /\ LET to_pinned == icon \in Range(unpinned_layout)
           pin == IF to_pinned THEN addWidget(pinned_layout, icon)
                  ELSE Remove(pinned_layout, icon)
           unp == IF to_pinned THEN Remove(unpinned_layout, icon)
                  ELSE addWidget(unpinned_layout, icon)
           pinflag == [is_pinned EXCEPT ![icon] = to_pinned]
           hid == [hidden EXCEPT ![icon] = FALSE]
       IN  /\ pinned_layout' = pin
           /\ unpinned_layout' = unp
           /\ is_pinned' = pinflag
           /\ hidden' = hid
           /\ save_state(pinflag, hid, unp, pin, pc)
           /\ update_pinned_widget_visibility(pin, hid, FALSE)
    /\ UNCHANGED <<icons, data, pending, sort_timer, dragging>>

\* ------------------------------------------------ drag and drop
\* the user starts dragging an icon they can see
on_drag_started ==
    /\ UNCHANGED <<icon_data, written, timer_vars, dead, client_vars, queue_vars>>
    /\ pc = "running"
    /\ pending = {}
    /\ ~dragging
    /\ \E w \in Range(icons) :
           ~hidden[w] /\ (w \in Range(pinned_layout) => pinned_visible)
    /\ dragging' = TRUE
    /\ update_pinned_widget_visibility(pinned_layout, hidden, TRUE)
    /\ UNCHANGED <<pc, icons, data, is_pinned, hidden, unpinned_layout,
                   pinned_layout, pending, current_state, disk, sort_timer>>

on_drag_ended ==
    /\ UNCHANGED <<icon_data, written, timer_vars, dead, client_vars, queue_vars>>
    /\ pc = "running"
    /\ pending = {}
    /\ dragging
    /\ dragging' = FALSE
    /\ update_pinned_widget_visibility(pinned_layout, hidden, FALSE)
    /\ UNCHANGED <<pc, icons, data, is_pinned, hidden, unpinned_layout,
                   pinned_layout, pending, current_state, disk, sort_timer>>

\* the drop target has put the dragged icon at position index of one of the
\* two groups and emits icon_moved
on_icon_moved(icon, to_pinned, index) ==
    /\ UNCHANGED <<icon_data, written, timer_vars, dead, client_vars, queue_vars>>
    /\ pc = "running"
    /\ pending = {}
    /\ dragging
    /\ icon \in Range(icons)
    /\ ~hidden[icon]
    /\ LET pin == IF to_pinned THEN insertWidget(pinned_layout, index, icon)
                  ELSE Remove(pinned_layout, icon)
           unp == IF to_pinned THEN Remove(unpinned_layout, icon)
                  ELSE insertWidget(unpinned_layout, index, icon)
           pinflag == [is_pinned EXCEPT ![icon] = (icon \notin Range(unp))]
       IN  /\ index <= Len(IF to_pinned THEN pin ELSE unp) - 1
           /\ pinned_layout' = pin
           /\ unpinned_layout' = unp
           /\ is_pinned' = pinflag
           /\ save_state(pinflag, hidden, unp, pin, pc)
    /\ UNCHANGED <<icons, data, hidden, pending, pinned_visible, forceshow,
                   sort_timer, dragging>>

\* ------------------------------------------------ application quit
\* aboutToQuit: save_state, then the process ends
about_to_quit ==
    /\ UNCHANGED <<icon_data, written, timer_vars, dead, client_vars, queue_vars>>
    /\ pc = "running"
    /\ pending = {}
    /\ ~dragging
    /\ save_state(is_pinned, hidden, unpinned_layout, pinned_layout, "quit")
    /\ UNCHANGED <<icons, data, is_pinned, hidden, unpinned_layout, pinned_layout,
                   pending, pinned_visible, forceshow, sort_timer, dragging>>

\* another tray host of the same monitor saves its state to the shared file
ExternalSave(key, value) ==
    /\ UNCHANGED <<icon_data, written, timer_vars, dead, client_vars, queue_vars>>
    /\ pc = "running"
    /\ disk.kind # "nonobject"
    /\ IF key \in DOMAIN ReadSaved(disk) THEN ReadSaved(disk)[key] # value ELSE TRUE
    /\ disk' = [kind |-> "object",
                obj |-> [k \in {key} |-> value] @@ ReadSaved(disk)]
    /\ UNCHANGED <<pc, icons, data, is_pinned, hidden, unpinned_layout, pinned_layout,
                   pending, current_state, pinned_visible, forceshow, sort_timer,
                   dragging>>

\* what it writes: an entry of the shell's icons, saved under their path
ExternalKeys == {"explorer.exe"}

ExternalValues == {[is_pinned |-> "true", index |-> MaxIndex]}

\* ------------------------------------------------ one icon's data
\* the presence flag of each flag-dependent attribute
flag_dependent_attrs ==
    [uCallbackMessage |-> NIF_MESSAGE, hIcon |-> NIF_ICON, szTip |-> NIF_TIP,
     dwState |-> NIF_STATE, dwStateMask |-> NIF_STATE, guid |-> NIF_GUID,
     dwInfoFlags |-> NIF_INFO, szInfoTitle |-> NIF_INFO, szInfo |-> NIF_INFO,
     uTimeout |-> NIF_INFO]

direct_attributes ==
    {"message_type", "hWnd", "uID", "uFlags", "icon_image", "exe", "exe_path"}

\* the value each attribute was last given: by the notification d if d writes
\* it, by the notifications before d if not
LastWritten(before, d) ==
    [attr \in DOMAIN before |->
        IF attr \in direct_attributes THEN d[attr]
        ELSE IF attr \in DOMAIN flag_dependent_attrs
        THEN IF HasFlag(d.uFlags, flag_dependent_attrs[attr]) THEN d[attr]
             ELSE before[attr]
        ELSE before[attr]]

\* a notification resolved to the icon: on_icon_modified updates its data
icon_data_modified(d) ==
    /\ icon_data' = update_icon_data(icon_data, d)
    /\ written' = LastWritten(written, d)
    /\ UNCHANGED <<widget_vars, client_vars, queue_vars, timer_vars, dead>>

\* ------------------------------------------------ the queued signals
\* the monitor thread emits icon_modified or icon_deleted: the signal is posted
\* to the thread of the widget, whose slots run later
emit(kind, d) ==
    /\ pc = "running"
    /\ Len(queue) < MaxQueue
    /\ emitted < MaxEmitted
    /\ emitted' = emitted + 1
    /\ queue' = Append(queue, [seq |-> emitted + 1, kind |-> kind, data |-> d])
    /\ UNCHANGED <<widget_vars, icon_data, written, timer_vars, dead, client_vars, last_handled>>

\* the event loop of the UI thread takes the newest posted notification
deliver_newest ==
    /\ queue # <<>>
    /\ LET e == queue[Len(queue)]
       IN  /\ IF e.kind = "modified"
              THEN on_icon_modified(e.data)
              ELSE on_icon_deleted(e.data)
           /\ last_handled' = e.seq
    /\ queue' = SubSeq(queue, 1, Len(queue) - 1)
    /\ emitted' = emitted

\* the event loop of the UI thread takes the oldest posted notification and
\* runs the slot connected to its signal
deliver ==
    /\ queue # <<>>
    /\ LET e == Head(queue)
       IN  /\ IF e.kind = "modified"
              THEN on_icon_modified(e.data)
              ELSE on_icon_deleted(e.data)
           /\ last_handled' = e.seq
    /\ queue' = Tail(queue)
    /\ emitted' = emitted

\* ------------------------------------------------ timers and windows
\* one tick of the clock passes while the sort timer runs
Tick ==
    /\ pc = "running"
    /\ sort_timer
    /\ sort_remaining > 0
    /\ sort_remaining' = sort_remaining - 1
    /\ waited' = waited + 1
    /\ UNCHANGED <<widget_vars, icon_data, written, client_vars, queue_vars, dead>>

\* sort_timer.timeout: the delay of the last start has run out
sort_timeout ==
    /\ sort_remaining = 0
    /\ sort_icons

\* the states in which sort_timeout can be taken (ENABLED <<sort_timeout>>_vars)
SortDue == pc = "running" /\ sort_timer /\ pending = {} /\ sort_remaining = 0

\* the window of an application is destroyed
window_destroyed(h) ==
    /\ h \notin dead
    /\ dead' = dead \cup {h}
    /\ UNCHANGED <<widget_vars, icon_data, written, client_vars, queue_vars, timer_vars>>

\* icon_check_timer.timeout: check_icons with IsWindow as it is now
sweep == check_icons(dead)

\* ------------------------------------------------ specifications
\* the tray host with the icons of Apps: layout, sorting, visibility, persistence
Next ==
    \/ setup_client
    \/ \E d \in NotifSet : on_icon_modified(d) /\ UNCHANGED queue_vars
    \/ \E d \in DeletedSet : on_icon_deleted(d) /\ UNCHANGED queue_vars
    \/ \E w \in Widgets : DeferredDelete(w)
    \/ \E invalid \in SUBSET HWnds : check_icons(invalid)
    \/ sort_icons
    \/ \E w \in Widgets : on_icon_pinned_changed(w)
    \/ on_drag_started
    \/ on_drag_ended
    \/ \E w \in Widgets, p \in BOOLEAN, i \in 0..(MaxWidgets - 1) : on_icon_moved(w, p, i)
    \/ about_to_quit
    \/ \E k \in ExternalKeys, v \in ExternalValues : ExternalSave(k, v)

Spec == Init /\ [][Next]_vars

\* identity resolution: notifications with any GUID from any window, on a first
\* start without a state file
IdentityInit == Init /\ disk.kind = "missing"

IdentityNext ==
    \/ setup_client
    \/ \E d \in IdentityNotifSet : on_icon_modified(d) /\ UNCHANGED queue_vars
    \/ \E d \in IdentityNotifSet : on_icon_deleted(d) /\ UNCHANGED queue_vars
    \/ \E w \in Widgets : DeferredDelete(w)
    \/ \E invalid \in SUBSET HWnds : check_icons(invalid)

SpecIdentity == IdentityInit /\ [][IdentityNext]_vars

\* pinning and sorting the two icons of one executable, on a first start
SameExeInit == Init /\ disk.kind = "missing"

SameExeNext ==
    \/ setup_client
    \/ \E d \in SameExeNotifSet : on_icon_modified(d) /\ UNCHANGED queue_vars
    \/ \E d \in SameExeNotifSet : on_icon_deleted(d) /\ UNCHANGED queue_vars
    \/ \E w \in Widgets : DeferredDelete(w)
    \/ sort_icons
    \/ \E w \in Widgets : on_icon_pinned_changed(w)

SpecSameExe == SameExeInit /\ [][SameExeNext]_vars

\* the tray hosts of all monitors set up the shared client, in any order, each
\* with a state file of any kind
FileKinds == {"missing", "notjson", "nonobject", "object"}

ClientInit ==
    /\ InitSelf
    /\ others \in [OtherHosts -> {NewHost(k) : k \in FileKinds}]

ClientNext ==
    \/ setup_client
    \/ \E i \in OtherHosts : other_setup_client(i)

SpecClient == ClientInit /\ [][ClientNext]_vars

\* the monitor thread emits, the UI thread handles: notifications, sweeps,
\* sorts and pin toggles, on a first start
QueueInit == Init /\ disk.kind = "missing"

QueueNext ==
    \/ setup_client
    \/ \E d \in NotifSet : emit("modified", d)
    \/ \E d \in DeletedSet : emit("deleted", d)
    \/ deliver
    \/ \E w \in Widgets : DeferredDelete(w)
    \/ \E invalid \in SUBSET HWnds : check_icons(invalid)
    \/ sort_icons
    \/ \E w \in Widgets : on_icon_pinned_changed(w)

SpecQueue == QueueInit /\ [][QueueNext]_vars

\* the timers: icon-modified notifications of living windows, windows that die
\* without a delete notification, the clock, the sort timer and the sweep
\* timer, on a first start; the timers and the deferred deletes are served by
\* the event loop
\* (the weak fairness of sort_timeout is stated with its enabling condition
\* SortDue written out)
TimersInit == Init /\ disk.kind = "missing"

TimersNext ==
    \/ setup_client
    \/ \E d \in NotifSet : d.hWnd \notin dead /\ on_icon_modified(d) /\ UNCHANGED queue_vars
    \/ \E w \in Widgets : DeferredDelete(w)
    \/ \E h \in HWnds : window_destroyed(h)
    \/ Tick
    \/ sort_timeout
    \/ sweep

SpecTimers ==
    /\ TimersInit
    /\ [][TimersNext]_vars
    /\ WF_vars(Tick)
    /\ ([]<>(~SortDue) \/ []<><<sort_timeout>>_vars)
    /\ WF_vars(\E w \in Widgets : DeferredDelete(w))
    /\ SF_vars(sweep)

\* hiding and showing: notifications with any state value, pin toggles and
\* deferred deletes, on a start with any state file
StateNext ==
    \/ setup_client
    \/ \E d \in StateNotifSet : on_icon_modified(d) /\ UNCHANGED queue_vars
    \/ \E d \in DeletedSet : on_icon_deleted(d) /\ UNCHANGED queue_vars
    \/ \E w \in Widgets : DeferredDelete(w)
    \/ \E w \in Widgets : on_icon_pinned_changed(w)

SpecState == Init /\ [][StateNext]_vars

\* a start with the state file of a session that left the volume icon before
\* the legacy icon in the unpinned group; the icons arrive in any order, the
\* sort timer fires and the application quits, the user moving nothing
OrderFile ==
    (str(VOLUME_ICON_GUID) :> [is_pinned |-> "false", index |-> 0])
        @@ ("a.exe" :> [is_pinned |-> "false", index |-> 1])

OrderInit ==
    /\ InitWidget
    /\ disk = [kind |-> "object", obj |-> OrderFile]
    /\ others = [i \in OtherHosts |-> NewHost("missing")]

OrderNext ==
    \/ setup_client
    \/ \E d \in NotifSet : on_icon_modified(d) /\ UNCHANGED queue_vars
    \/ \E d \in DeletedSet : on_icon_deleted(d) /\ UNCHANGED queue_vars
    \/ \E w \in Widgets : DeferredDelete(w)
    \/ sort_icons
    \/ about_to_quit

SpecOrder == OrderInit /\ [][OrderNext]_vars

\* the data of one icon under any sequence of notifications resolved to it
DataInit == Init /\ disk.kind = "missing"

DataNext == \E d \in DataNotifSet : icon_data_modified(d)

SpecData == DataInit /\ [][DataNext]_vars

\* ------------------------------------------------ properties
\* a step of save_state: a pin toggle, a drop, or the save at quit
SaveStep ==
    \/ \E w \in Widgets : on_icon_pinned_changed(w)
    \/ \E w \in Widgets, p \in BOOLEAN, i \in 0..(MaxWidgets - 1) : on_icon_moved(w, p, i)
    \/ about_to_quit

\* a step of one of the handlers that end with the visibility of the pinned
\* group settled
HandlerStep ==
    \/ \E d \in NotifSet : on_icon_modified(d) /\ UNCHANGED queue_vars
    \/ \E d \in DeletedSet : on_icon_deleted(d) /\ UNCHANGED queue_vars
    \/ \E invalid \in SUBSET HWnds : check_icons(invalid)
    \/ \E w \in Widgets : on_icon_pinned_changed(w)
    \/ \E w \in Widgets, p \in BOOLEAN, i \in 0..(MaxWidgets - 1) : on_icon_moved(w, p, i)
    \/ on_drag_ended
    \/ sort_icons

\* C1: in every state reached by icon-modified and icon-deleted notifications
\* and liveness sweeps, no two live registry entries hold the same non-null
\* GUID and no two hold the same (hWnd, uID) pair.
C1_UniqueIdentity ==
    \A a, b \in Range(icons) :
        a # b =>
            /\ ~(data[a].guid # None /\ data[a].guid = data[b].guid)
            /\ ~(data[a].hWnd = data[b].hWnd /\ data[a].uID = data[b].uID)

\* C2: an icon-modified notification carrying a GUID that a registry entry
\* holds is resolved to that entry whatever its hWnd and uID are (no entry is
\* added, only that entry changes and it takes the notification's hWnd and
\* uID), so no GUID is ever held by two entries; a notification without GUID
\* changes only an entry whose (hWnd, uID) pair equals its own.
C2_GuidResolution ==
    [][\A d \in IdentityNotifSet :
          (on_icon_modified(d) /\ d.guid \notin filtered_guids) =>
              LET holders == {w \in Range(icons) :
                                 data[w].guid # None /\ data[w].guid = d.guid}
                  touched == {w \in Range(icons) : data'[w] # data[w]}
              IN  /\ (d.guid # None /\ holders # {}) =>
                         /\ icons' = icons
                         /\ touched \subseteq holders
                         /\ \A w \in holders :
                                data'[w].hWnd = d.hWnd /\ data'[w].uID = d.uID
                  /\ \A g \in Guids :
                         Cardinality({w \in Range(icons') : data'[w].guid = g}) <= 1
                  /\ d.guid = None =>
                         \A w \in touched :
                             data[w].hWnd = d.hWnd /\ data[w].uID = d.uID
      ]_vars

\* an entry holding a GUID stands on the (hWnd, uID) pair of another entry: a
\* notification with its GUID reached it from a window that was not its own
C2_HandleChanged ==
    \E a, b \in Range(icons) :
        /\ a # b
        /\ data[a].guid # None
        /\ data[b].guid = None
        /\ data[a].hWnd = data[b].hWnd
        /\ data[a].uID = data[b].uID

\* C3: the first icon-modified notification of an icon puts it in the pinned
\* group when the current-state map has is_pinned = true for it, looked up by
\* its GUID-or-path key first and by its path key second, and in the unpinned
\* group when the entry found says unpinned or there is none, whatever icons
\* are live already.
C3_FirstPlacement ==
    [][\A d \in NotifSet :
          (on_icon_modified(d) /\ Len(icons') > Len(icons)) =>
              LET icon == icons'[Len(icons')]
                  key == IF d.guid # None THEN str(d.guid) ELSE d.exe_path
                  entry == IF key \in DOMAIN current_state
                           THEN {current_state[key]}
                           ELSE IF d.exe_path \in DOMAIN current_state
                           THEN {current_state[d.exe_path]}
                           ELSE {}
                  pinned == \E e \in entry : e.is_pinned
              IN  /\ icon \in Range(pinned_layout') <=> pinned
                  /\ icon \in Range(unpinned_layout') <=> ~pinned
                  /\ is_pinned'[icon] = pinned
      ]_vars

\* the volume icon arrived second and stands in the pinned group although no
\* entry was ever saved under its GUID: its path key placed it
C3_PinnedByPath ==
    /\ Len(icons) = 2
    /\ data[icons[2]].guid = VOLUME_ICON_GUID
    /\ icons[2] \in Range(pinned_layout)
    /\ str(VOLUME_ICON_GUID) \notin DOMAIN current_state
    /\ "explorer.exe" \in DOMAIN current_state

\* C4: in every state where sort_icons can run, running it twice in a row
\* leaves both groups in the same widget order after the second run as after
\* the first.
C4_SortIdempotent ==
    (pc = "running" /\ sort_timer /\ pending = {}) =>
        LET once == sort_result(unpinned_layout, pinned_layout, current_state)
            twice == sort_result(once.unpinned, once.pinned, once.cs)
        IN  twice.unpinned = once.unpinned /\ twice.pinned = once.pinned

\* C5: after every save_state, load_state of the file written gives, for each
\* key of the current-state map at the save, the (is_pinned, index) value the
\* save's snapshot holds for it.
C5_SaveLoadRoundTrip ==
    [][(SaveStep /\ pc' # "crashed") =>
          \A k \in DOMAIN current_state' :
              /\ k \in DOMAIN LoadFile(disk')
              /\ LoadFile(disk')[k] = current_state'[k]
      ]_vars

\* the save at quit wrote a pinned and an unpinned entry
C5_SavedBothGroups ==
    /\ pc = "quit"
    /\ \E k \in DOMAIN current_state : current_state[k].is_pinned
    /\ \E k \in DOMAIN current_state :
           ~current_state[k].is_pinned /\ current_state[k].index > 0

\* C6: every save_state keeps, with its value, every key of the file it found
\* that is not in the current-state map it writes.
C6_SaveMerges ==
    [][(SaveStep /\ pc' # "crashed") =>
          \A k \in DOMAIN ReadSaved(disk) \ DOMAIN current_state' :
              /\ k \in DOMAIN ReadSaved(disk')
              /\ ReadSaved(disk')[k] = ReadSaved(disk)[k]
      ]_vars

\* the save at quit wrote its entries into a file that holds a key the
\* current-state map never had
C6_ForeignKeyKept ==
    /\ pc = "quit"
    /\ current_state # EmptyMap
    /\ \E k \in DOMAIN ReadSaved(disk) : k \notin DOMAIN current_state

\* C7: when no drag is in progress after a handler (icon modified, icon
\* deleted, liveness sweep, pin toggle, drop, drag end, sort), the pinned group
\* is visible if and only if it holds a live icon that is not hidden.
C7_VisibleIffShown ==
    [][(HandlerStep /\ ~dragging') =>
          (pinned_visible' <=>
              {w \in Range(pinned_layout') \cap Range(icons') : ~hidden'[w]} # {})
      ]_vars

\* C8: while a drag is in progress the pinned group is visible.
C8_VisibleDuringDrag == dragging => pinned_visible

\* C9: after any sequence of notifications resolved to one icon, each direct
\* attribute of its data holds the value of the last notification, and each
\* flag-dependent attribute the value of the last notification that had its
\* presence flag (the empty value when none had): a notification without the
\* flag leaves the attribute as it was.
C9_LastWritten ==
    \A attr \in direct_attributes \cup DOMAIN flag_dependent_attrs :
        icon_data[attr] = written[attr]

\* the last notification, stamped 2, had no NIF_ICON: hIcon keeps the 1 of an
\* earlier notification, and the tooltip, never flagged, is still empty
C9_KeptAcrossUnflagged ==
    /\ icon_data.hWnd = 2
    /\ ~HasFlag(icon_data.uFlags, NIF_ICON)
    /\ icon_data.hIcon = 1
    /\ icon_data.szTip = ""
    /\ icon_data.dwState = 2

\* C10: an icon-modified or icon-deleted notification whose GUID is in the
\* filter set changes nothing: registry, groups, data, hidden flags,
\* current-state map, sort timer and pinned-group visibility stay as they were.
C10_FilteredDropped ==
    [][\A d \in NotifSet \cup DeletedSet :
          (d.guid \in filtered_guids /\ (on_icon_modified(d) \/ on_icon_deleted(d))) =>
              UNCHANGED <<icons, unpinned_layout, pinned_layout, data, hidden,
                          current_state, sort_timer, pinned_visible>>
      ]_vars

\* C11: an icon-deleted notification whose identity (its GUID when it has one,
\* else its (hWnd, uID) pair) is that of no live entry removes no entry and
\* changes no group; a liveness sweep that finds every live icon's window valid
\* removes nothing.
C11_UnknownDeleteNoOp ==
    [][/\ \A d \in IdentityNotifSet :
              (/\ on_icon_deleted(d)
               /\ \A w \in Range(icons) :
                      IF d.guid # None
                      THEN data[w].guid # d.guid
                      ELSE ~(data[w].hWnd = d.hWnd /\ data[w].uID = d.uID))
                  => UNCHANGED <<icons, unpinned_layout, pinned_layout>>
       /\ \A invalid \in SUBSET HWnds :
              (/\ check_icons(invalid)
               /\ \A w \in Range(icons) : data[w].hWnd \notin invalid)
                  => UNCHANGED <<icons, unpinned_layout, pinned_layout>>
      ]_vars

\* C12: whatever the state file holds when it is missing or malformed (no
\* file, text that is not JSON, JSON that is no object of records), load_state
\* returns with an empty current-state map and the widget goes on, and
\* save_state returns having written the current-state map alone.
C12_MalformedFileIsEmpty ==
    [][/\ (setup_client /\ disk.kind # "object") =>
              (pc' = "running" /\ current_state' = EmptyMap)
       /\ (SaveStep /\ disk.kind # "object") =>
              (/\ pc' # "crashed"
               /\ disk'.kind = "object"
               /\ LoadFile(disk') = current_state')
      ]_vars

\* C16: a notification that carries a GUID is resolved by GUID alone: when no
\* live entry holds its GUID it resolves to no entry, whatever entry stands on
\* its (hWnd, uID) pair, so an icon-modified notification adds a new entry and
\* an icon-deleted notification removes none.
C16_GuidOnlyLookup ==
    [][\A d \in IdentityNotifSet :
          (/\ d.guid # None
           /\ d.guid \notin filtered_guids
           /\ \A w \in Range(icons) : data[w].guid # d.guid)
              => /\ on_icon_modified(d) =>
                        (/\ Len(icons') = Len(icons) + 1
                         /\ \A w \in Range(icons) : data'[w] = data[w])
                 /\ on_icon_deleted(d) => icons' = icons
      ]_vars

\* C17: between handlers every widget of the pinned or the unpinned layout is
\* a live registry entry: an icon removed by an icon-deleted notification or a
\* liveness sweep is in neither layout once the handler has returned.
C17_LayoutsHoldLiveIcons ==
    \A w \in Range(pinned_layout) \cup Range(unpinned_layout) : w \in Range(icons)

\* the sort key section 4.3 gives a widget: the index saved under its GUID key,
\* failing that the index saved under its path key, failing that the sentinel
SavedIndexOf(w) ==
    IF data[w].guid # None /\ str(data[w].guid) \in DOMAIN current_state
    THEN current_state[str(data[w].guid)].index
    ELSE IF data[w].exe_path \in DOMAIN current_state
    THEN current_state[data[w].exe_path].index
    ELSE NoIndex

\* the widgets of after are those of before, in non-decreasing order of their
\* saved index, widgets of equal index in the order they had
SortedBySavedIndex(before, after) ==
    /\ Len(after) = Len(before)
    /\ Range(after) = Range(before)
    /\ \A i, j \in 1..Len(after) :
           i < j => SavedIndexOf(after[i]) <= SavedIndexOf(after[j])
    /\ \A a, b \in Range(before) :
           (SavedIndexOf(a) = SavedIndexOf(b) /\ IndexOf(before, a) < IndexOf(before, b))
               => IndexOf(after, a) < IndexOf(after, b)

\* C20: sort_icons leaves each group with the widgets it had, in
\* non-decreasing order of their sort key (saved index under the GUID key,
\* else under the path key, else 9999), widgets of equal key in their
\* previous order.
C20_SortedBySavedIndex ==
    [][sort_icons =>
          /\ SortedBySavedIndex(unpinned_layout, unpinned_layout')
          /\ SortedBySavedIndex(pinned_layout, pinned_layout')
      ]_vars

\* C18: a pin toggle moves the icon to the other group and negates its
\* is_pinned flag, and when it returns the state file holds, under the icon's
\* key (GUID string, else executable path), the icon's new is_pinned and its
\* index in its new group, whatever other icons are live.
C18_PinToggleSaved ==
    [][\A icon \in Widgets :
          on_icon_pinned_changed(icon) =>
              LET group == IF is_pinned'[icon] THEN pinned_layout' ELSE unpinned_layout'
              IN  /\ icon \in Range(unpinned_layout) <=> icon \in Range(pinned_layout')
                  /\ icon \in Range(pinned_layout) <=> icon \in Range(unpinned_layout')
                  /\ is_pinned'[icon] = ~is_pinned[icon]
                  /\ disk'.kind = "object"
                  /\ KeyOf(icon) \in DOMAIN disk'.obj
                  /\ from_dict(disk'.obj[KeyOf(icon)])
                         = IconState(is_pinned'[icon], IndexOf(group, icon))
      ]_vars

\* C13: every live icon is in exactly one of the two groups, once, and its
\* is_pinned flag is true exactly when that group is the pinned one.
C13_OneGroupMirrorsFlag ==
    \A w \in Range(icons) :
        /\ Cardinality({i \in 1..Len(pinned_layout) : pinned_layout[i] = w})
               + Cardinality({i \in 1..Len(unpinned_layout) : unpinned_layout[i] = w}) = 1
        /\ is_pinned[w] <=> w \in Range(pinned_layout)

\* the legacy icon, which no state file ever pinned, stands in the pinned group
\* beside the volume icon: a pin toggle or a drop moved it there
C13_LegacyMovedToPinned ==
    /\ Len(pinned_layout) = 2
    /\ \E w \in Range(icons) :
           data[w].guid = None /\ w \in Range(pinned_layout) /\ is_pinned[w]
    /\ \E w \in Range(icons) :
           data[w].guid = VOLUME_ICON_GUID /\ w \in Range(pinned_layout)
    /\ "a.exe" \in DOMAIN ReadSaved(disk)

\* the current-state map of a running widget gets an index it did not hold: a
\* key is new in it, or the index stored under a key differs
StoredIndexChanged ==
    /\ pc = "running"
    /\ \E k \in DOMAIN current_state' :
           \/ k \notin DOMAIN current_state
           \/ current_state'[k].index # current_state[k].index

\* C19 as stated: the index stored in the current-state map for any key changes
\* only during sort_icons; icon-modified, icon-deleted, liveness sweep, pin
\* toggle, drag-move and the save on application quit leave every stored index
\* unchanged.
C19_OnlySortAssignsIndex ==
    [][StoredIndexChanged => sort_icons]_vars

\* C19, amended: the index stored in the current-state map for any key changes
\* only during sort_icons or in the snapshot that save_state takes (pin toggle,
\* drag-move, save on application quit); icon-modified, icon-deleted and the
\* liveness sweep leave every stored index unchanged.
C19_SortOrSaveAssignsIndex ==
    [][StoredIndexChanged => (sort_icons \/ SaveStep)]_vars

\* the widget has quit with the sort still outstanding, and the save at quit
\* stored the indexes of two icons that the sort never assigned
C19_IndexFromSaveAtQuit ==
    /\ pc = "quit"
    /\ sort_timer
    /\ Len(icons) = 2
    /\ \A i \in 1..Len(icons) : KeyOf(icons[i]) \in DOMAIN current_state

\* C14: for any number of tray-host widget instances started in any order, at
\* most one tray-monitor client and at most one monitor thread are ever created,
\* and every widget instance whose setup_client has run is connected to that
\* same client and has called send_taskbar_created exactly once.
C14_OneClientForAll ==
    /\ monitors <= 1
    /\ threads <= 1
    /\ pc # "init" => (client # None /\ client = _instance /\ sent = 1)
    /\ \A i \in OtherHosts :
           others[i].pc # "init" =>
               /\ others[i].client # None
               /\ others[i].client = _instance
               /\ others[i].sent = 1

\* C15: the monitor thread never mutates the registry, the groups or the
\* current-state map: a step in which it emits a notification only posts it to
\* the UI thread; the notifications are handled there one at a time, each by
\* its own slot in one step, in the order they were emitted; and the registry
\* changes only in such a handler or in the liveness sweep.
C15_QueuedInOrder ==
    [][/\ emitted' # emitted =>
              /\ queue' # queue
              /\ UNCHANGED <<icons, data, is_pinned, hidden, unpinned_layout,
                             pinned_layout, current_state, last_handled>>
       /\ last_handled' # last_handled =>
              /\ queue # <<>>
              /\ last_handled' = last_handled + 1
              /\ Head(queue).seq = last_handled'
              /\ queue' = Tail(queue)
              /\ IF Head(queue).kind = "modified"
                 THEN on_icon_modified(Head(queue).data)
                 ELSE on_icon_deleted(Head(queue).data)
       /\ icons' # icons =>
              \/ last_handled' # last_handled
              \/ \E invalid \in SUBSET HWnds : check_icons(invalid)
      ]_vars

\* one notification has been handled and made an icon, and two more are posted
\* and wait in the queue
C15_TwoWaiting ==
    /\ Len(queue) = MaxQueue
    /\ last_handled >= 1
    /\ icons # <<>>
    /\ queue[1].data # queue[2].data

\* C21: after load_state the key set of the current-state map never shrinks,
\* and the entry under a key that no live, non-hidden icon holds keeps its
\* value: the one of the last snapshot in which its icon was live and shown.
C21_KeysKept ==
    [][pc = "running" =>
          /\ DOMAIN current_state \subseteq DOMAIN current_state'
          /\ \A k \in DOMAIN current_state :
                 (\A i \in 1..Len(icons') :
                      \/ hidden'[icons'[i]]
                      \/ k # IF data'[icons'[i]].guid = None
                             THEN data'[icons'[i]].exe_path
                             ELSE str(data'[icons'[i]].guid))
                     => current_state'[k] = current_state[k]
      ]_vars

\* the widget has quit, and the snapshot of its last save left the entry of
\* the volume icon, removed before, beside the entry of the icon still live
C21_RemovedIconKeptAtQuit ==
    /\ pc = "quit"
    /\ icons # <<>>
    /\ \A i \in 1..Len(icons) :
           /\ data[icons[i]].guid # VOLUME_ICON_GUID
           /\ KeyOf(icons[i]) \in DOMAIN current_state
    /\ str(VOLUME_ICON_GUID) \in DOMAIN current_state

\* C22: each insertion of a new icon restarts the single-shot sort timer, so
\* sort_icons runs only when the full delay has passed since the last
\* insertion; a notification that only updates an existing icon leaves the
\* timer as it is; the sort stops the timer (it runs once); and once the
\* pending sort has waited, it eventually runs unless a new insertion restarts
\* the delay.
C22_DebouncedSort ==
    /\ [][/\ Len(icons') > Len(icons) =>
                 sort_timer' /\ sort_remaining' = SortDelay /\ waited' = 0
          /\ (\E d \in NotifSet : on_icon_modified(d)) /\ Len(icons') = Len(icons) =>
                 UNCHANGED <<sort_timer, sort_remaining>>
          /\ sort_icons => sort_timer /\ waited >= SortDelay /\ ~sort_timer'
          /\ sort_timer /\ ~sort_timer' => sort_icons
         ]_vars
    /\ (sort_timer /\ waited > 0) ~> (~sort_timer \/ waited = 0)

\* two icons are live and the sort has run: the timer is off, and the snapshot
\* of the sort holds an entry for each of them
C22_SortedAfterBurst ==
    /\ Len(icons) = 2
    /\ ~sort_timer
    /\ \A i \in 1..Len(icons) : KeyOf(icons[i]) \in DOMAIN current_state

\* C23: a liveness sweep removes from the registry exactly the live icons whose
\* window handle is invalid at the time of the sweep and leaves every other
\* icon's entry, data, group and position unchanged; and an icon whose window
\* is invalid is eventually removed, with no delete notification arriving.
C23_SweepRemovesDead ==
    /\ [][sweep =>
              /\ icons' = SelectSeq(icons, LAMBDA w : data[w].hWnd \notin dead)
              /\ \A w \in Range(icons') :
                     /\ data'[w] = data[w]
                     /\ is_pinned'[w] = is_pinned[w]
                     /\ hidden'[w] = hidden[w]
                     /\ IndexOf(unpinned_layout', w) = IndexOf(unpinned_layout, w)
                     /\ IndexOf(pinned_layout', w) = IndexOf(pinned_layout, w)
         ]_vars
    /\ \A w \in Widgets :
           (w \in Range(icons) /\ data[w].hWnd \in dead)
               ~> ~(w \in Range(icons) /\ data[w].hWnd \in dead)

\* the sweep has removed the icon of a dead window, which awaits its deletion,
\* and the icon of the living window is still in the registry
C23_DeadRemovedLivingKept ==
    /\ dead # {}
    /\ pending # {}
    /\ Len(icons) = 1
    /\ data[icons[1]].hWnd \notin dead

\* C24: after every icon-modified notification processed for a live icon, the
\* icon widget is hidden if and only if the notification carries NIF_STATE and
\* its dwState has the hidden bit set, for every dwState and dwStateMask; and
\* the visibility of the pinned group is the one computed from the layouts with
\* that hidden flag applied.
C24_HiddenIffStateBit ==
    [][\A d \in StateNotifSet :
          (on_icon_modified(d) /\ d.guid \notin filtered_guids) =>
              LET found == find_icon(d.guid, d.hWnd, d.uID)
                  icon == IF found = None THEN icons'[Len(icons')] ELSE found
              IN  /\ hidden'[icon] <=>
                         (HasFlag(d.uFlags, NIF_STATE) /\ HasFlag(d.dwState, NIS_HIDDEN))
                  /\ pinned_visible' <=> ~is_layout_empty(pinned_layout', hidden')
      ]_vars

\* C25: the ordering loaded from disk survives startup: after a sort each
\* group holds the icons recorded in the loaded state in the order of their
\* loaded indices, and a save (here the save at quit, the user having moved
\* nothing) never writes indices that reverse the loaded order of two icons.
C25_LoadedOrderSurvives ==
    [][/\ sort_icons =>
              \A i, j \in 1..Len(unpinned_layout') :
                  (/\ i < j
                   /\ unpinned_layout'[i] \in Range(icons)
                   /\ unpinned_layout'[j] \in Range(icons))
                      => OrderFile[KeyOf(unpinned_layout'[i])].index
                             <= OrderFile[KeyOf(unpinned_layout'[j])].index
       /\ about_to_quit =>
              \A k1, k2 \in DOMAIN OrderFile :
                  (/\ disk'.kind = "object"
                   /\ OrderFile[k1].index < OrderFile[k2].index)
                      => disk'.obj[k1].index <= disk'.obj[k2].index
      ]_vars

C27_LoadedBeforeNotifications ==
    [][/\ sent' # sent =>
              /\ pc = "init" /\ pc' = "running"
              /\ sent = 0 /\ sent' = 1
              /\ current_state' = LoadFile(disk)
       /\ icons' # icons => pc = "running" /\ sent = 1
       /\ pc # "init" => pc' # "init"
       /\ (pc # "init" /\ current_state # EmptyMap) => current_state' # EmptyMap
      ]_vars

\* the volume icon stands in the pinned group by the entry loaded from the
\* state file under its path: no snapshot has stored its own key yet
C27_PlacedByLoadedState ==
    /\ pc = "running"
    /\ sent = 1
    /\ "explorer.exe" \in DOMAIN current_state
    /\ str(VOLUME_ICON_GUID) \notin DOMAIN current_state
    /\ \E w \in Range(icons) :
           data[w].guid = VOLUME_ICON_GUID /\ w \in Range(pinned_layout)

====
